---- MODULE Spec2Model ----
(***************************************************************************)
(* The feedback collector server of the Duplicate Logic Detector Action:   *)
(* webhook ingestion behind an HMAC signature, the in-memory table         *)
(* reactionData with its durable file, reaction refresh and statistics.    *)
(*                                                                         *)
(* A JavaScript string is a sequence of code points (naturals); a Buffer   *)
(* is a sequence of bytes (0..255).  An async handler is atomic between    *)
(* two awaits of a pending promise (file write, HTTP fetch, timer).        *)
(***************************************************************************)
EXTENDS Integers, Sequences, FiniteSets, TLC

VARIABLES
    listening,      \* startServer has loaded the file and called app.listen
    reactionData,   \* the in-memory table: a sequence of entries
    file,           \* content of DATA_FILE
    req,            \* the requests in flight, one per slot
    last,           \* the step just taken: the request, its inputs, its response
    now,            \* the clock read by new Date()
    sigArgs,        \* arguments of a call of verifyGitHubSignature
    sigRet          \* its outcome: pending, a returned boolean, or a throw

vars == <<listening, reactionData, file, req, last, now, sigArgs, sigRet>>
serverVars == <<listening, reactionData, file, req, last, now>>

\* ------------------------------------------------------------------------
\* Bounds of the model
\* ------------------------------------------------------------------------
MaxTime == 1            \* ticks of the clock
MaxPayloadLen == 2      \* code points of a payload handed to the verifier
MaxPayloadBytes == 16   \* longest payload (in bytes) any specification signs
MaxReactions == 1       \* reactions of a short answer of the API
LongTotal == 40         \* reactions of a long answer of the API

\* ------------------------------------------------------------------------
\* Strings, buffers, HMAC
\* ------------------------------------------------------------------------
Undefined == <<-1>>     \* JS undefined: an absent header or field

RECURSIVE SeqsUpTo(_, _)
SeqsUpTo(S, n) ==
    IF n = 0 THEN {<<>>}
    ELSE LET shorter == SeqsUpTo(S, n - 1)
         IN  shorter \cup {Append(s, c) : s \in shorter, c \in S}

\* Buffer.from(string): the UTF-8 encoding of the string.
Utf8Char(c) ==
    IF c < 128 THEN <<c>> ELSE <<192 + (c \div 64), 128 + (c % 64)>>

RECURSIVE BufferFrom(_)
BufferFrom(s) ==
    IF s = <<>> THEN <<>> ELSE Utf8Char(Head(s)) \o BufferFrom(Tail(s))

\* digest('hex'): two lower-case hexadecimal digits per byte.
HexDigit(d) == IF d < 10 THEN 48 + d ELSE 87 + d

RECURSIVE Hex(_)
Hex(bytes) ==
    IF bytes = <<>> THEN <<>>
    ELSE <<HexDigit(Head(bytes) \div 16), HexDigit(Head(bytes) % 16)>>
             \o Hex(Tail(bytes))

\* crypto.createHmac('sha256', secret).update(payload, 'utf8'): idealised as an
\* injective keyed function with a digest of fixed length (key, length and
\* bytes of the message, zero padded).
Zeros(n) == [i \in 1..n |-> 0]

createHmac(secret, payload) ==
    LET bytes == BufferFrom(payload)
        pad   == IF Len(bytes) < MaxPayloadBytes
                 THEN MaxPayloadBytes - Len(bytes) ELSE 0
    IN  <<secret, Len(bytes)>> \o bytes \o Zeros(pad)

Sha256Prefix == <<115, 104, 97, 50, 53, 54, 61>>      \* 'sha256='

\* crypto.timingSafeEqual(a, b): throws when the byte lengths differ.
Returned(v) == [state |-> "returned", value |-> v, error |-> "none"]
Thrown(e)   == [state |-> "thrown", value |-> FALSE, error |-> e]
Pending     == [state |-> "pending", value |-> FALSE, error |-> "none"]

timingSafeEqual(a, b) ==
    IF Len(a) # Len(b) THEN Thrown("RangeError") ELSE Returned(a = b)

verifyGitHubSignature(payload, signature, secret) ==
    IF signature = Undefined \/ signature = <<>>
    THEN Returned(FALSE)
    ELSE LET digest == Sha256Prefix \o Hex(createHmac(secret, payload))
         IN  timingSafeEqual(BufferFrom(signature), BufferFrom(digest))

\* ------------------------------------------------------------------------
\* JavaScript numbers: IEEE 754 binary64 with round-to-nearest-even.
\* A positive double is [m, e]: m its 53 significand bits, most significant
\* first, and e the exponent of the last bit; zero has no bits.
\* ------------------------------------------------------------------------
SignificandBits == 53

Float64Zero == [m |-> <<>>, e |-> 0]

RECURSIVE BitsToNat(_, _)
BitsToNat(bits, n) ==       \* the number written by the first n bits
    IF n = 0 THEN 0 ELSE 2 * BitsToNat(bits, n - 1) + bits[n]

\* bits + 1, one bit longer when the carry runs out of the top
BitsIncrement(bits) ==
    LET zeros == {i \in 1..Len(bits) : bits[i] = 0}
    IN  IF zeros = {}
        THEN <<1>> \o [i \in 1..Len(bits) |-> 0]
        ELSE LET low == CHOOSE i \in zeros : \A j \in zeros : j <= i
             IN  [i \in 1..Len(bits) |->
                    IF i < low THEN bits[i] ELSE IF i = low THEN 1 ELSE 0]

\* Round a significand of any length (leading bit 1) whose last bit has
\* exponent e, followed by a tail that is below, at or above one half of that
\* last bit (tail = -1, 0, 1), to 53 bits, ties to even.
Float64Round(bits, e, tail) ==
    LET n     == Len(bits)
        drop  == n - SignificandBits
        kept  == IF drop > 0 THEN SubSeq(bits, 1, SignificandBits) ELSE bits
        guard == IF drop > 0 THEN bits[SignificandBits + 1] ELSE 0
        rest  == IF drop > 1
                 THEN \E i \in (SignificandBits + 2)..n : bits[i] = 1
                 ELSE FALSE
        \* the dropped part compared with one half of the last kept bit
        above == IF drop > 0 THEN guard = 1 /\ (rest \/ tail # -2)
                 ELSE tail = 1
        half  == IF drop > 0 THEN guard = 1 /\ ~rest /\ tail = -2
                 ELSE tail = 0
        up    == above \/ (half /\ kept[Len(kept)] = 1)
        inc   == IF up THEN BitsIncrement(kept) ELSE kept
        e1    == IF drop > 0 THEN e + drop ELSE e
    IN  IF Len(inc) > Len(kept)
        THEN [m |-> SubSeq(inc, 1, Len(kept)), e |-> e1 + 1]
        ELSE [m |-> inc, e |-> e1]

\* 2^i modulo t, by squaring
RECURSIVE Pow2Mod(_, _)
Pow2Mod(i, t) ==
    IF i = 0 THEN 1 % t
    ELSE LET h == Pow2Mod(i \div 2, t)
         IN  (h * h * (IF i % 2 = 1 THEN 2 ELSE 1)) % t

\* the quotient bits of rem/t after the binary point, n of them, and the
\* remainder left: the remainder after i bits is rem * 2^i modulo t
DivBits(rem, t, n) ==
    [bits |-> [i \in 1..n |->
                 IF 2 * ((rem * Pow2Mod(i - 1, t)) % t) >= t THEN 1 ELSE 0],
     rem  |-> (rem * Pow2Mod(n, t)) % t]

RECURSIVE ShiftToOne(_, _, _)
ShiftToOne(p, t, s) == IF p >= t THEN [p |-> p, s |-> s]
                       ELSE ShiftToOne(2 * p, t, s + 1)

\* a / b for integers 0 <= a <= b, 0 < b
Float64Div(a, b) ==
    IF a = 0 THEN Float64Zero
    ELSE LET sh   == ShiftToOne(a, b, 0)
             d    == DivBits(sh.p - b, b, SignificandBits - 1)
             tail == IF 2 * d.rem > b THEN 1
                     ELSE IF 2 * d.rem = b THEN 0 ELSE -1
         IN  Float64Round(<<1>> \o d.bits, -(sh.s) - (SignificandBits - 1),
                          IF d.rem = 0 THEN -2 ELSE tail)

\* bits * k, computed on limbs of LimbBits bits, least significant limb
\* first with a running carry; j is the number of limbs still to multiply
LimbBits == 12
LimbBase == 2 ^ LimbBits

ToLimbs(bits) ==
    LET count  == (Len(bits) + LimbBits - 1) \div LimbBits
        padded == Zeros(count * LimbBits - Len(bits)) \o bits
    IN  [j \in 1..count |->
           BitsToNat(SubSeq(padded, (j - 1) * LimbBits + 1, j * LimbBits),
                     LimbBits)]

RECURSIVE MulLimbs(_, _, _, _)
MulLimbs(limbs, j, k, carry) ==
    IF j = 0
    THEN IF carry = 0 THEN <<>> ELSE <<carry>>
    ELSE Append(MulLimbs(limbs, j - 1, k, (limbs[j] * k + carry) \div LimbBase),
                (limbs[j] * k + carry) % LimbBase)

FromLimbs(limbs) ==
    LET all   == [i \in 1..(LimbBits * Len(limbs)) |->
                    (limbs[(i - 1) \div LimbBits + 1]
                       \div (2 ^ (LimbBits - 1 - ((i - 1) % LimbBits)))) % 2]
        ones  == {i \in 1..Len(all) : all[i] = 1}
        first == CHOOSE i \in ones : \A j \in ones : i <= j
    IN  SubSeq(all, first, Len(all))

\* bits * k for 0 < k < LimbBase and bits with leading bit 1
MulBits(bits, k) ==
    LET limbs == ToLimbs(bits)
    IN  FromLimbs(MulLimbs(limbs, Len(limbs), k, 0))

\* x * k for a double x >= 0 and an integer k > 0
Float64Mul(x, k) ==
    IF x.m = <<>> THEN Float64Zero
    ELSE Float64Round(MulBits(x.m, k), x.e, -2)

\* Math.round(x) for x >= 0: floor(x + 0.5), computed exactly
MathRound(x) ==
    IF x.m = <<>> THEN 0
    ELSE LET n == Len(x.m) + x.e      \* bits before the binary point
         IN  IF n < 0 THEN 0
             ELSE IF x.e >= 0 THEN BitsToNat(x.m \o Zeros(x.e), n)
             ELSE BitsToNat(x.m, n) + x.m[n + 1]

\* ------------------------------------------------------------------------
\* Comment classifier
\* ------------------------------------------------------------------------
\* String.prototype.includes
Includes(s, sub) ==
    \E i \in 0..(Len(s) - Len(sub)) : SubSeq(s, i + 1, i + Len(sub)) = sub

\* The three markers, abbreviated to two code points each: 68 stands for
\* the magnifier and 'Duplicate Logic', 76 for ' Detection'; 100 for
\* 'duplicate-logic-detector-comment', 45 for '-'; 72 for 'Help us improve!',
\* 82 for ' React with'.
HeadingMarker  == <<68, 76>>    \* 'Duplicate Logic Detection' heading
TagMarker      == <<100, 45>>   \* 'duplicate-logic-detector-comment-'
FeedbackMarker == <<72, 82>>    \* 'Help us improve! React with'

isDuplicateDetectorCommentTwoMarkers(commentBody) ==
    IF commentBody = Undefined \/ commentBody = <<>> THEN FALSE
    ELSE \/ Includes(commentBody, HeadingMarker)
         \/ Includes(commentBody, TagMarker)

isDuplicateDetectorComment(commentBody) ==
    IF commentBody = Undefined \/ commentBody = <<>> THEN FALSE
    ELSE \/ Includes(commentBody, HeadingMarker)
         \/ Includes(commentBody, TagMarker)
         \/ Includes(commentBody, FeedbackMarker)

\* ------------------------------------------------------------------------
\* Request bodies: JSON text and its parsed value
\* ------------------------------------------------------------------------
\* A webhook document: action, comment {id, user.login, body} when present,
\* repository when present.  Its JSON text is one code point per token, the
\* body a quoted string at the end; a blank (32) may stand between tokens.
Blank == 32
Quote == 34

ActionCode(a) == IF a = "created" THEN 99 ELSE 101
CodeAction(c) == IF c = 99 THEN "created" ELSE "edited"

NoComment == [id |-> 0, login |-> Undefined, body |-> Undefined]

\* JSON.stringify(value): the compact text, no blanks
JSONstringify(doc) ==
    <<ActionCode(doc.action)>>
      \o (IF doc.repository THEN <<82>> ELSE <<>>)
      \o (IF doc.comment = NoComment THEN <<>>
          ELSE <<67, 48 + doc.comment.id>> \o doc.comment.login
                 \o (IF doc.comment.body = Undefined THEN <<>>
                     ELSE <<Quote>> \o doc.comment.body \o <<Quote>>))

\* express.json(): JSON.parse of the raw body; blanks between tokens are
\* not part of the value
JSONparse(text) ==
    LET t    == SelectSeq(text, LAMBDA c : c # Blank)
        repo == Len(t) >= 2 /\ t[2] = 82
        at   == IF repo THEN 3 ELSE 2         \* where the comment starts
    IN  [action     |-> CodeAction(t[1]),
         repository |-> repo,
         comment    |->
            IF Len(t) < at THEN NoComment
            ELSE [id    |-> t[at + 1] - 48,
                  login |-> <<t[at + 2]>>,
                  body  |-> IF Len(t) <= at + 2 THEN Undefined
                            ELSE SubSeq(t, at + 4, Len(t) - 1)]]

\* ------------------------------------------------------------------------
\* Entries, statistics, the durable file
\* ------------------------------------------------------------------------
PreviewLen == 100
Ellipsis == <<46, 46, 46>>                  \* '...'

Substring(s, from, to) ==                   \* String.prototype.substring
    SubSeq(s, from + 1, IF to < Len(s) THEN to ELSE Len(s))

\* Math.round((part / whole) * 100) for 0 <= part <= whole, 0 < whole; the
\* results for small counts are computed once
RoundedQuotient(part, whole) ==
    MathRound(Float64Mul(Float64Div(part, whole), 100))

TabulatedCounts == LongTotal + 3
RoundedQuotients ==
    [whole \in 1..TabulatedCounts |->
        [part \in 0..whole |-> RoundedQuotient(part, whole)]]

JsPercent(part, whole) ==
    IF whole <= TabulatedCounts THEN RoundedQuotients[whole][part]
    ELSE RoundedQuotient(part, whole)

PositiveTypesOverlap == {"+1", "heart", "rocket", "hooray", "confused"}

PositiveTypes == {"+1", "heart", "rocket", "hooray"}
NegativeTypes == {"-1", "confused"}

Filter(seq, types) == SelectSeq(seq, LAMBDA r : r.type \in types)

\* the stats object of updateCommentReactions
ComputeStats(reactions) ==
    LET positive == Filter(reactions, PositiveTypes)
        negative == Filter(reactions, NegativeTypes)
    IN  [total        |-> Len(reactions),
         positive     |-> Len(positive),
         negative     |-> Len(negative),
         satisfaction |->
            IF Len(reactions) > 0
            THEN JsPercent(Len(positive), Len(reactions))
            ELSE 0]

HasStats(entry) == "stats" \in DOMAIN entry

\* entry.stats = value: adds the property when the object has none
SetField(entry, field, value) ==
    [f \in DOMAIN entry \cup {field} |->
        IF f = field THEN value ELSE entry[f]]

FileMissing == [kind |-> "missing", value |-> <<>>]
FileOf(data) == [kind |-> "json", value |-> data]

IdsOf(data) == {data[i].id : i \in 1..Len(data)}

FindIndexFirst(data, id) ==
    IF id \in {data[i].id : i \in 1..Len(data)} THEN
        CHOOSE i \in 1..Len(data) :
            /\ data[i].id = id
            /\ \A j \in 1..(i - 1) : data[j].id # id
    ELSE IF data # <<>> THEN 1 ELSE 0

\* Array.prototype.findIndex(item => item.id === id), 0 for "not found"
FindIndex(data, id) ==
    IF id \in IdsOf(data)
    THEN CHOOSE i \in 1..Len(data) :
            /\ data[i].id = id
            /\ \A j \in 1..(i - 1) : data[j].id # id
    ELSE 0

\* ------------------------------------------------------------------------
\* The server: state after module load, startServer, the handlers
\* ------------------------------------------------------------------------
WEBHOOK_SECRET == 1
Slots == {1}

\* A handler in flight: where it waits (pc), the comment id it works on, the
\* index of the table object it holds a reference to (entry) and whether the
\* table has replaced that object since (stale), the text handed to
\* fs.writeFile (snap), the credential of the request (token); for a batch
\* the position of its array iterator (index), its counter (updated), and a
\* the reactions its fetch returned (reactions); for a batch the position of
\* its array iterator (index), its counter (updated), and a record of what it
\* did: the ids of the table when it started (startIds), the ids it
\* attempted and those whose fetch returned reactions, in order.
Idle == [pc |-> "idle", id |-> 0, entry |-> 0, stale |-> FALSE,
         snap |-> FileMissing, token |-> "", reactions |-> <<>>,
         index |-> 0, updated |-> 0,
         startIds |-> <<>>, attempted |-> <<>>, succeeded |-> <<>>]

ServerInit ==
    /\ listening = FALSE
    /\ reactionData = <<>>
    /\ file = FileMissing
    /\ req = [s \in Slots |-> Idle]
    /\ last = [op |-> "load"]
    /\ now = 0

\* What JSON.parse returns for a file that holds a JSON document other than
\* an array or null (an object, a number, a string).  The variable of the
\* table then holds a value that is no array; it is written here as a
\* one-element sequence so that it can be compared with tables.
ParsedObject == <<[object |-> TRUE]>>

IsArray(data) == data # ParsedObject

\* loadData: reactionData = JSON.parse(data), then the log line reads
\* reactionData.length.  readFile rejects for a missing or unreadable file,
\* JSON.parse throws on text that is no JSON document, and reading .length
\* of null throws: the catch block leaves the table empty.  Any other
\* document parses and is assigned as it is.
loadData(f) ==
    IF f.kind = "json" THEN f.value
    ELSE IF f.kind = "object" THEN ParsedObject
    ELSE <<>>

\* startServer: await loadData(), then app.listen
startServer ==
    /\ ~listening
    /\ listening' = TRUE
    /\ reactionData' = loadData(file)
    /\ last' = [op |-> "listen"]
    /\ UNCHANGED <<file, req, now, sigArgs, sigRet>>

\* the clock advances between two steps
Tick ==
    /\ now < MaxTime
    /\ now' = now + 1
    /\ last' = [op |-> "tick"]
    /\ UNCHANGED <<listening, reactionData, file, req, sigArgs, sigRet>>

UpsertPush(data, entry) == Append(data, entry)

UpsertAlone(data, entry) == <<entry>>

UpsertPrepends(data, entry) == <<entry>> \o data

\* lookup-then-replace-or-append of handleCommentCreated
Upsert(data, entry) ==
    LET existingIndex == FindIndex(data, entry.id)
    IN  IF existingIndex > 0
        THEN [data EXCEPT ![existingIndex] = entry]
        ELSE Append(data, entry)

\* the entry handleCommentCreated builds from the payload
NewEntry(comment, t) ==
    [id           |-> comment.id,
     timestamp    |-> t,
     repository   |-> "owner/repo",
     issue_number |-> 42,
     comment_url  |-> comment.id,
     author       |-> comment.login,
     created_at   |-> 0,
     body_preview |-> Substring(comment.body, 0, PreviewLen) \o Ellipsis,
     reactions    |-> <<>>,
     last_updated |-> t]

\* A request that holds a reference to the object stored at an index keeps
\* it when the table replaces that object: its later writes land on the
\* replaced object, which the table no longer holds (stale).
Replaced(slotState, data, entry) ==
    IF slotState.entry > 0 /\ slotState.entry = FindIndex(data, entry.id)
    THEN [slotState EXCEPT !.stale = TRUE]
    ELSE slotState

\* A webhook request as the handler sees it: express.json() has parsed the
\* raw body into req.body; the handler re-serialises req.body and verifies
\* the signature header against that text.
Received(raw, signature, event) ==
    LET body == JSONparse(raw)
    IN  [raw       |-> raw,
         signature |-> signature,
         event     |-> event,
         body      |-> body,
         verified  |-> verifyGitHubSignature(JSONstringify(body), signature,
                                             WEBHOOK_SECRET)]

\* POST /webhook up to its first pending await: signature check, event
\* dispatch, handleCommentCreated up to the call of fs.writeFile
Webhook(s, r) ==
    /\ listening
    /\ req[s].pc = "idle"
    /\ LET body    == r.body
           request == [op |-> "webhook", raw |-> r.raw,
                       signature |-> r.signature, event |-> r.event]
           Settle(outcome, status) ==
               /\ last' = request @@ [outcome |-> outcome, status |-> status]
               /\ UNCHANGED <<reactionData, file, req>>
           Respond(status) == Settle("response", status)
       IN  IF r.verified.state = "thrown"
           THEN \* thrown outside the try block: the handler's promise
                \* rejects and no response is ever sent
                Settle("unhandledRejection", 0)
           ELSE IF ~r.verified.value
           THEN Respond(401)
           ELSE IF ~(r.event = "issue_comment" /\ body.action = "created")
           THEN Respond(200)
           ELSE IF body.comment = NoComment
           THEN Respond(500)       \* TypeError reading comment.body
           ELSE IF ~isDuplicateDetectorComment(body.comment.body)
           THEN Respond(200)
           ELSE IF ~body.repository
           THEN Respond(500)       \* TypeError reading repository.full_name
           ELSE LET entry == NewEntry(body.comment, now)
                    data  == Upsert(reactionData, entry)
                IN  /\ reactionData' = data
                    /\ req' = [t \in DOMAIN req |->
                                 IF t = s
                                 THEN [Idle EXCEPT !.pc = "webhookSave",
                                                   !.id = entry.id,
                                                   !.snap = FileOf(data)]
                                 ELSE Replaced(req[t], reactionData, entry)]
                    /\ last' = request @@
                                 [outcome |-> "awaitSave", status |-> 0,
                                  existingIndex |->
                                      FindIndex(reactionData, entry.id)]
                    /\ UNCHANGED file
    /\ UNCHANGED <<listening, now, sigArgs, sigRet>>

\* saveData: JSON.stringify(reactionData) is evaluated at the call, the
\* write settles later; a write error is caught and logged
saveData(f, snap, ok) == IF ok THEN snap ELSE f

\* fetchCommentReactions: the reactions mapped to {type, user, created_at},
\* or null on a transport error or a status that is not OK
MapReactions(json) ==
    [i \in 1..Len(json) |->
        [type       |-> json[i].content,
         user       |-> json[i].user.login,
         created_at |-> json[i].created_at]]

fetchCommentReactionsNoNull(response) ==
    [null  |-> FALSE,
     value |-> IF response.kind = "ok" THEN MapReactions(response.json)
               ELSE <<>>]

fetchCommentReactionsFalsy(response) ==
    IF response.kind = "ok" /\ response.json # <<>>
    THEN [null |-> FALSE, value |-> MapReactions(response.json)]
    ELSE [null |-> TRUE, value |-> <<>>]

fetchCommentReactions(response) ==
    IF response.kind = "ok"
    THEN [null |-> FALSE, value |-> MapReactions(response.json)]
    ELSE [null |-> TRUE, value |-> <<>>]

UpdateEntryKeepsToken(entry, reactions, t) ==
    [f \in DOMAIN entry \cup {"stats", "token"} |->
        IF f = "stats" THEN ComputeStats(reactions)
        ELSE IF f = "token" THEN "token"
        ELSE IF f = "reactions" THEN reactions
        ELSE IF f = "last_updated" THEN t
        ELSE entry[f]]

UpdateEntryTouchesTimestamp(entry, reactions, t) ==
    [f \in DOMAIN entry \cup {"stats"} |->
        IF f = "stats" THEN ComputeStats(reactions)
        ELSE IF f = "reactions" THEN reactions
        ELSE IF f \in {"last_updated", "timestamp"} THEN t
        ELSE entry[f]]

UpdateEntryKeepsStats(entry, reactions, t) ==
    IF HasStats(entry)
    THEN [entry EXCEPT !.reactions = reactions, !.last_updated = t]
    ELSE SetField([entry EXCEPT !.reactions = reactions, !.last_updated = t],
                  "stats", ComputeStats(reactions))

UpdateEntryCutsPreview(entry, reactions, t) ==
    SetField([entry EXCEPT !.reactions = reactions, !.last_updated = t,
                           !.body_preview = <<>>],
             "stats", ComputeStats(reactions))

\* the writes of updateCommentReactions on the entry it looked up
UpdateEntry(entry, reactions, t) ==
    SetField([entry EXCEPT !.reactions = reactions, !.last_updated = t],
             "stats", ComputeStats(reactions))

\* the presence tests of the refresh handlers: !commentId, !token
MissingId(commentId) == commentId = 0

MissingTokenNever(token) == FALSE

MissingToken(token) == token = ""

\* POST /update-reactions up to its first pending await: validation, lookup,
\* the call of fetch
UpdateReactions(s, commentId, token) ==
    /\ listening
    /\ req[s].pc = "idle"
    /\ LET request == [op |-> "updateReactions", id |-> commentId,
                       token |-> token]
           index   == FindIndex(reactionData, commentId)
       IN  IF MissingId(commentId) \/ MissingToken(token)
           THEN /\ last' = request @@ [outcome |-> "response", status |-> 400]
                /\ UNCHANGED req
           ELSE IF index = 0
           THEN /\ last' = request @@ [outcome |-> "response", status |-> 404]
                /\ UNCHANGED req
           ELSE /\ last' = request @@ [outcome |-> "awaitFetch", status |-> 0]
                /\ req' = [req EXCEPT ![s] =
                             [Idle EXCEPT !.pc = "fetch", !.id = commentId,
                                          !.entry = index, !.token = token]]
    /\ UNCHANGED <<listening, reactionData, file, now, sigArgs, sigRet>>

FetchSettledRetries(s, response) ==
    /\ req[s].pc = "fetch"
    /\ LET reactions == fetchCommentReactions(response)
           index     == req[s].entry
           request   == [op |-> "fetched", id |-> req[s].id,
                         response |-> response,
                         success |-> ~reactions.null,
                         reactions |-> reactions.value]
       IN  IF reactions.null
           THEN /\ last' = request @@ [outcome |-> "awaitFetch", status |-> 0]
                /\ UNCHANGED <<req, reactionData>>
           ELSE LET data == IF req[s].stale THEN reactionData
                            ELSE [reactionData EXCEPT ![index] =
                                    UpdateEntry(@, reactions.value, now)]
                IN  /\ reactionData' = data
                    /\ req' = [req EXCEPT ![s].pc = "refreshSave",
                                          ![s].reactions = reactions.value,
                                          ![s].snap = FileOf(data)]
                    /\ last' = request @@ [outcome |-> "awaitSave",
                                           status |-> 0]
    /\ UNCHANGED <<listening, file, now, sigArgs, sigRet>>

\* the fetch of a single refresh settles: on success the entry is written and
\* saveData called; on null the request is answered 404
FetchSettled(s, response) ==
    /\ req[s].pc = "fetch"
    /\ LET reactions == fetchCommentReactions(response)
           index     == req[s].entry
           request   == [op |-> "fetched", id |-> req[s].id,
                         response |-> response,
                         success |-> ~reactions.null,
                         reactions |-> reactions.value]
       IN  IF reactions.null
           THEN /\ last' = request @@ [outcome |-> "response", status |-> 404]
                /\ req' = [req EXCEPT ![s] = Idle]
                /\ UNCHANGED reactionData
           ELSE LET data == IF req[s].stale THEN reactionData
                            ELSE [reactionData EXCEPT ![index] =
                                    UpdateEntry(@, reactions.value, now)]
                IN  /\ reactionData' = data
                    /\ req' = [req EXCEPT ![s].pc = "refreshSave",
                                          ![s].reactions = reactions.value,
                                          ![s].snap = FileOf(data)]
                    /\ last' = request @@ [outcome |-> "awaitSave",
                                           status |-> 0]
    /\ UNCHANGED <<listening, file, now, sigArgs, sigRet>>

WriteSettledUnsaved(s, ok) ==
    /\ req[s].pc \in {"webhookSave", "refreshSave"}
    /\ file' = file
    /\ req' = [req EXCEPT ![s] = Idle]
    /\ last' = IF req[s].pc = "webhookSave"
               THEN [op |-> "webhookDone", id |-> req[s].id, saved |-> ok,
                     outcome |-> "response", status |-> 200]
               ELSE [op |-> "updateReactionsDone", id |-> req[s].id,
                     saved |-> ok, outcome |-> "response", status |-> 200,
                     fetched |-> req[s].reactions,
                     comment |->
                        reactionData[FindIndex(reactionData, req[s].id)]]
    /\ UNCHANGED <<listening, reactionData, now, sigArgs, sigRet>>

WriteSettledRethrows(s, ok) ==
    /\ req[s].pc \in {"webhookSave", "refreshSave"}
    /\ file' = saveData(file, req[s].snap, ok)
    /\ req' = [req EXCEPT ![s] = Idle]
    /\ last' = IF req[s].pc = "webhookSave"
               THEN [op |-> "webhookDone", id |-> req[s].id, saved |-> ok,
                     outcome |-> "response",
                     status |-> IF ok THEN 200 ELSE 500]
               ELSE [op |-> "updateReactionsDone", id |-> req[s].id,
                     saved |-> ok, outcome |-> "response",
                     status |-> IF ok THEN 200 ELSE 500,
                     fetched |-> req[s].reactions,
                     comment |->
                        reactionData[FindIndex(reactionData, req[s].id)]]
    /\ UNCHANGED <<listening, reactionData, now, sigArgs, sigRet>>

\* the write of saveData settles and the handler that awaited it responds
WriteSettled(s, ok) ==
    /\ req[s].pc \in {"webhookSave", "refreshSave"}
    /\ file' = saveData(file, req[s].snap, ok)
    /\ req' = [req EXCEPT ![s] = Idle]
    /\ last' = IF req[s].pc = "webhookSave"
               THEN [op |-> "webhookDone", id |-> req[s].id, saved |-> ok,
                     outcome |-> "response", status |-> 200]
               ELSE [op |-> "updateReactionsDone", id |-> req[s].id,
                     saved |-> ok, outcome |-> "response", status |-> 200,
                     fetched |-> req[s].reactions,
                     comment |->
                        reactionData[FindIndex(reactionData, req[s].id)]]
    /\ UNCHANGED <<listening, reactionData, now, sigArgs, sigRet>>

\* POST /update-all.  The loop 'for (const entry of reactionData)' runs an
\* array iterator over the table itself: each turn it compares its index
\* with the length the table has then and takes the object stored there.
IdSeq(data) == [i \in 1..Len(data) |-> data[i].id]

\* the iterator is done when its index has reached the length of the table
IteratorDoneOnFailure(b, data) ==
    b.index >= Len(data) \/ Len(b.succeeded) < Len(b.attempted)

IteratorDone(b, data) == b.index >= Len(data)

\* one turn of the iterator for the handler state b: the loop ends with the
\* response, or updateCommentReactions(entry.id, token) runs up to its fetch
BatchTurn(s, b, request) ==
    IF IteratorDone(b, reactionData)
    THEN /\ req' = [req EXCEPT ![s] = Idle]
         /\ last' = request @@
                      [outcome |-> "response", status |-> 200,
                       updated |-> b.updated, total |-> Len(reactionData),
                       startIds |-> b.startIds, attempted |-> b.attempted,
                       succeeded |-> b.succeeded]
    ELSE LET id == reactionData[b.index + 1].id
         IN  /\ req' = [req EXCEPT ![s] =
                          [b EXCEPT !.pc = "batchFetch",
                                    !.index = b.index + 1,
                                    !.id = id,
                                    !.entry = FindIndex(reactionData, id),
                                    !.stale = FALSE,
                                    !.attempted = Append(b.attempted, id)]]
             /\ last' = request @@ [outcome |-> "awaitFetch", status |-> 0,
                                    id |-> id]

UpdateAll(s, token) ==
    /\ listening
    /\ req[s].pc = "idle"
    /\ LET request == [op |-> "updateAll", token |-> token]
       IN  IF MissingToken(token)
           THEN /\ last' = request @@ [outcome |-> "response", status |-> 400]
                /\ UNCHANGED req
           ELSE BatchTurn(s, [Idle EXCEPT !.token = token,
                                          !.startIds = IdSeq(reactionData)],
                          request)
    /\ UNCHANGED <<listening, reactionData, file, now, sigArgs, sigRet>>

\* the fetch of a batch turn settles: null makes the attempt a failure and
\* the loop goes to its delay; otherwise the entry is written and saveData
\* called
BatchFetchSettled(s, response) ==
    /\ req[s].pc = "batchFetch"
    /\ LET reactions == fetchCommentReactions(response)
           request   == [op |-> "batchFetched", id |-> req[s].id,
                         response |-> response,
                         success |-> ~reactions.null,
                         reactions |-> reactions.value]
       IN  IF reactions.null
           THEN /\ last' = request @@ [outcome |-> "awaitDelay", status |-> 0]
                /\ req' = [req EXCEPT ![s].pc = "batchDelay"]
                /\ UNCHANGED reactionData
           ELSE LET data == IF req[s].stale THEN reactionData
                            ELSE [reactionData EXCEPT ![req[s].entry] =
                                    UpdateEntry(@, reactions.value, now)]
                IN  /\ reactionData' = data
                    /\ req' = [req EXCEPT ![s].pc = "batchSave",
                                          ![s].reactions = reactions.value,
                                          ![s].succeeded =
                                              Append(@, req[s].id),
                                          ![s].snap = FileOf(data)]
                    /\ last' = request @@ [outcome |-> "awaitSave",
                                           status |-> 0]
    /\ UNCHANGED <<listening, file, now, sigArgs, sigRet>>

BatchWriteSettledNoCount(s, ok) ==
    /\ req[s].pc = "batchSave"
    /\ file' = saveData(file, req[s].snap, ok)
    /\ req' = [req EXCEPT ![s].pc = "batchDelay"]
    /\ last' = [op |-> "batchSaved", id |-> req[s].id, saved |-> ok,
                outcome |-> "awaitDelay", status |-> 0]
    /\ UNCHANGED <<listening, reactionData, now, sigArgs, sigRet>>

\* the write of a batch turn settles: the attempt returns true, the counter
\* is incremented and the loop goes to its delay
BatchWriteSettled(s, ok) ==
    /\ req[s].pc = "batchSave"
    /\ file' = saveData(file, req[s].snap, ok)
    /\ req' = [req EXCEPT ![s].pc = "batchDelay",
                          ![s].updated = @ + 1]
    /\ last' = [op |-> "batchSaved", id |-> req[s].id, saved |-> ok,
                outcome |-> "awaitDelay", status |-> 0]
    /\ UNCHANGED <<listening, reactionData, now, sigArgs, sigRet>>

BatchDelaySkipped(s) ==
    /\ req[s].pc \in {"batchDelay", "batchFetch"}
    /\ BatchTurn(s, req[s], [op |-> "batchNext"])
    /\ UNCHANGED <<listening, reactionData, file, now, sigArgs, sigRet>>

\* the 100 ms delay of a batch turn elapses: the next turn of the iterator
BatchDelayElapsed(s) ==
    /\ req[s].pc = "batchDelay"
    /\ BatchTurn(s, req[s], [op |-> "batchNext"])
    /\ UNCHANGED <<listening, reactionData, file, now, sigArgs, sigRet>>

\* SIGTERM or SIGINT: the handler calls saveData and awaits it
Signal(s) ==
    /\ listening
    /\ req[s].pc = "idle"
    /\ req' = [req EXCEPT ![s] =
                 [Idle EXCEPT !.pc = "exitSave",
                              !.snap = FileOf(reactionData)]]
    /\ last' = [op |-> "signal", outcome |-> "awaitSave", status |-> 0]
    /\ UNCHANGED <<listening, reactionData, file, now, sigArgs, sigRet>>

\* the write of the signal handler settles, then process.exit(0): the
\* handlers in flight and the table are gone, the file stays
Exit(s, ok) ==
    /\ req[s].pc = "exitSave"
    /\ file' = saveData(file, req[s].snap, ok)
    /\ listening' = FALSE
    /\ reactionData' = <<>>
    /\ req' = [t \in DOMAIN req |-> Idle]
    /\ last' = [op |-> "exit", saved |-> ok, code |-> 0]
    /\ UNCHANGED <<now, sigArgs, sigRet>>

\* GET /stats
RECURSIVE SumStats(_, _, _)
SumStats(data, n, field) ==     \* reduce over the first n entries
    IF n = 0 THEN 0
    ELSE SumStats(data, n - 1, field)
           + (IF HasStats(data[n]) THEN data[n].stats[field] ELSE 0)

Percent(part, whole) == IF whole > 0 THEN JsPercent(part, whole) ELSE 0

StatsResponse(data) ==
    LET totalComments == Len(data)
        commentsWithReactions ==
            Len(SelectSeq(data,
                    LAMBDA e : HasStats(e) /\ e.stats.total > 0))
        totalReactions == SumStats(data, Len(data), "total")
        totalPositive  == SumStats(data, Len(data), "positive")
        totalNegative  == SumStats(data, Len(data), "negative")
    IN  [total_comments          |-> totalComments,
         comments_with_reactions |-> commentsWithReactions,
         total_reactions         |-> totalReactions,
         positive_reactions      |-> totalPositive,
         negative_reactions      |-> totalNegative,
         overall_satisfaction    |-> Percent(totalPositive, totalReactions),
         engagement_rate         |->
            Percent(commentsWithReactions, totalComments)]

\* reactionData.filter throws a TypeError when the table is no array
GetStats ==
    /\ listening
    /\ last' = IF IsArray(reactionData)
               THEN [op |-> "stats", outcome |-> "response", status |-> 200,
                     response |-> StatsResponse(reactionData)]
               ELSE [op |-> "stats", outcome |-> "response", status |-> 500]
    /\ UNCHANGED <<listening, reactionData, file, req, now, sigArgs, sigRet>>

\* GET /data: one summary per entry; an entry without stats is listed with
\* the default object
ZeroStats == [total |-> 0, positive |-> 0, negative |-> 0, satisfaction |-> 0]

SummaryFields == {"id", "repository", "issue_number", "author", "created_at",
                  "last_updated", "stats", "comment_url"}

DataSummaryNoDefault(entry) ==
    [f \in SummaryFields \cap DOMAIN entry |-> entry[f]]

DataSummary(entry) ==
    [f \in SummaryFields |->
        IF f = "stats"
        THEN (IF HasStats(entry) THEN entry.stats ELSE ZeroStats)
        ELSE entry[f]]

DataResponseCountsRefreshed(data) ==
    [total_comments |-> Len(SelectSeq(data, HasStats)),
     comments       |-> [i \in 1..Len(data) |-> DataSummary(data[i])]]

DataResponse(data) ==
    [total_comments |-> Len(data),
     comments       |-> [i \in 1..Len(data) |-> DataSummary(data[i])]]

\* reactionData.map throws a TypeError when the table is no array; Express
\* answers an exception of a synchronous handler with 500
GetData ==
    /\ listening
    /\ last' = IF IsArray(reactionData)
               THEN [op |-> "data", outcome |-> "response", status |-> 200,
                     response |-> DataResponse(reactionData)]
               ELSE [op |-> "data", outcome |-> "response", status |-> 500]
    /\ UNCHANGED <<listening, reactionData, file, req, now, sigArgs, sigRet>>

\* GET /health: status, uptime, timestamp and reactionData.length; JSON
\* leaves out a property whose value is undefined (the length of a table
\* that is no array)
HealthResponse(data) ==
    IF IsArray(data)
    THEN [status |-> "healthy", timestamp |-> now, data_entries |-> Len(data)]
    ELSE [status |-> "healthy", timestamp |-> now]

GetHealth ==
    /\ listening
    /\ last' = [op |-> "health", outcome |-> "response", status |-> 200,
                response |-> HealthResponse(reactionData)]
    /\ UNCHANGED <<listening, reactionData, file, req, now, sigArgs, sigRet>>

\* ------------------------------------------------------------------------
\* Inputs of the server specification
\* ------------------------------------------------------------------------
Ids == {1, 2}
Logins == {<<97>>, <<98>>}
Untracked == <<120>>
Tracked == HeadingMarker \o <<120>> \o FeedbackMarker \o TagMarker
Bodies == {Undefined, Untracked, Tracked}
Events == {"issue_comment", "push"}
Tokens == {"token", ""}

Comment(id, login, body) == [id |-> id, login |-> login, body |-> body]

Documents ==
    [action : {"created", "edited"}, repository : {TRUE},
     comment : [id : Ids, login : Logins, body : Bodies] \cup {NoComment}]
    \cup [action : {"created"}, repository : {FALSE},
          comment : {Comment(1, <<97>>, Tracked),
                     Comment(1, <<97>>, Untracked)}]

\* the sender's signature of a raw body
Sign(raw, secret) == Sha256Prefix \o Hex(createHmac(secret, raw))

\* the same document with a blank after its first token
Spaced(text) == <<Head(text), Blank>> \o Tail(text)

\* for a raw body: no header, the signature under another secret, one with a
\* digit changed, one with a byte above 127, one a byte short
BadSignatures(raw) ==
    LET good == Sign(raw, WEBHOOK_SECRET)
    IN  {Undefined, Sign(raw, 2),
         [good EXCEPT ![Len(good)] = IF @ = 48 THEN 49 ELSE 48],
         [good EXCEPT ![Len(good)] = 233],
         SubSeq(good, 1, Len(good) - 1)}

\* Every document, compact and signed by the sender, as an issue_comment
\* event; a few of them also as another event, with a blank in the raw body,
\* and (the tracked 'created' one) with each bad signature.
VariedDocuments ==
    {[action |-> a, repository |-> TRUE, comment |-> Comment(1, <<97>>, b)]
       : a \in {"created", "edited"}, b \in {Tracked, Untracked}}

TrackedDocument ==
    [action |-> "created", repository |-> TRUE,
     comment |-> Comment(1, <<97>>, Tracked)]

WebhookRequests ==
    {Received(JSONstringify(d), Sign(JSONstringify(d), WEBHOOK_SECRET),
              "issue_comment") : d \in Documents}
    \cup {Received(JSONstringify(d), Sign(JSONstringify(d), WEBHOOK_SECRET),
                   "push") : d \in VariedDocuments}
    \cup {Received(Spaced(JSONstringify(d)),
                   Sign(Spaced(JSONstringify(d)), WEBHOOK_SECRET), e)
            : d \in VariedDocuments, e \in Events}
    \cup UNION {{Received(raw, sig, "issue_comment")
                   : sig \in BadSignatures(raw)}
                : raw \in {JSONstringify(TrackedDocument),
                           Spaced(JSONstringify(TrackedDocument))}}

Reaction(type) == [content |-> type, user |-> [login |-> "u"],
                   created_at |-> 0]

ApiResponses ==
    {[kind |-> "error", json |-> <<>>], [kind |-> "status", json |-> <<>>]}
    \cup {[kind |-> "ok", json |-> j] :
            j \in {<<>>,
                   <<Reaction("+1"), Reaction("eyes"), Reaction("-1")>>}}

\* the writes of this specification succeed
WriteOutcomes == {TRUE}

Init ==
    /\ ServerInit
    /\ sigArgs = [payload |-> <<>>, signature |-> Undefined,
                  secret |-> WEBHOOK_SECRET]
    /\ sigRet = Pending

Next ==
    \/ startServer
    \/ Tick
    \/ \E s \in Slots, r \in WebhookRequests : Webhook(s, r)
    \/ \E s \in Slots, commentId \in Ids \cup {0}, token \in Tokens :
         UpdateReactions(s, commentId, token)
    \/ \E s \in Slots, response \in ApiResponses : FetchSettled(s, response)
    \/ \E s \in Slots, ok \in WriteOutcomes : WriteSettled(s, ok)
    \/ GetStats

Spec == Init /\ [][Next]_vars

\* ------------------------------------------------------------------------
\* Webhook ingestion: properties
\* ------------------------------------------------------------------------
\* what the sender sent: the document of the raw body, signed over the raw
\* bytes with the shared secret
Sent(l) == JSONparse(l.raw)
CorrectlySigned(l) == l.signature = Sign(l.raw, WEBHOOK_SECRET)
IsWebhook(l) == l.op = "webhook"
Ingested(l) == IsWebhook(l) /\ l.outcome = "awaitSave"
Answered(l, status) == l.outcome = "response" /\ l.status = status

\* a 'comment created' notification of a tracked comment
TrackedCreated(l) ==
    /\ l.event = "issue_comment"
    /\ Sent(l).action = "created"
    /\ Sent(l).comment # NoComment
    /\ isDuplicateDetectorComment(Sent(l).comment.body)

\* the record a notification stands for
RecordOf(comment, t) ==
    [id |-> comment.id, timestamp |-> t, repository |-> "owner/repo",
     issue_number |-> 42, comment_url |-> comment.id,
     author |-> comment.login, created_at |-> 0,
     body_preview |-> comment.body \o <<46, 46, 46>>,
     reactions |-> <<>>, last_updated |-> t]

IndicesOf(data, id) == {i \in 1..Len(data) : data[i].id = id}

\* C1: ingesting a tracked 'comment created' notification for an id the table
\* already holds leaves exactly one record with that id, at the same place,
\* equal to the record built from this notification alone (no reactions, no
\* stats); the other records and the length of the table are unchanged.
C1_ReingestReplaces ==
    [][(Ingested(last') /\ last'.existingIndex > 0) =>
          LET comment == Sent(last').comment
              at      == last'.existingIndex
          IN  /\ IndicesOf(reactionData', comment.id) = {at}
              /\ reactionData[at].id = comment.id
              /\ reactionData'[at] = RecordOf(comment, now)
              /\ ~HasStats(reactionData'[at])
              /\ Len(reactionData') = Len(reactionData)
              /\ \A i \in 1..Len(reactionData) :
                    i # at => reactionData'[i] = reactionData[i]]_vars

\* a second ingestion has replaced a record: the record at the first place
\* is younger than the record appended after it
C1_Witness ==
    /\ Ingested(last)
    /\ last.existingIndex = 1
    /\ Len(reactionData) = 2
    /\ reactionData[1].id = Sent(last).comment.id
    /\ reactionData[1].timestamp > reactionData[2].timestamp

\* C2: a correctly signed 'issue_comment'/'created' notification of a tracked
\* comment (repository present) with an id the table does not hold appends
\* exactly one record, with no reactions and no stats.
C2_UnseenIdAppendsOne ==
    [][(/\ IsWebhook(last')
        /\ CorrectlySigned(last')
        /\ TrackedCreated(last')
        /\ Sent(last').repository
        /\ Sent(last').comment.id \notin IdsOf(reactionData)) =>
          /\ Len(reactionData') = Len(reactionData) + 1
          /\ SubSeq(reactionData', 1, Len(reactionData)) = reactionData
          /\ LET new == reactionData'[Len(reactionData')]
             IN  /\ new.id = Sent(last').comment.id
                 /\ new.reactions = <<>>
                 /\ ~HasStats(new)]_vars

\* C3: a correctly signed notification changes the table only when it is a
\* tracked 'comment created'; every other one (untracked body, other event,
\* other action) is answered 200 and leaves the table and the file unchanged.
C3_OnlyTrackedCreatedMutates ==
    [][(/\ IsWebhook(last')
        /\ CorrectlySigned(last')
        /\ Sent(last').comment # NoComment) =>
          IF TrackedCreated(last')
          THEN TRUE
          ELSE /\ Answered(last', 200)
               /\ UNCHANGED <<reactionData, file>>]_vars

\* the verifier does not return true for the request as the handler sees it
DoesNotVerify(l) ==
    \/ l.signature = Undefined
    \/ verifyGitHubSignature(JSONstringify(JSONparse(l.raw)), l.signature,
                             WEBHOOK_SECRET) # Returned(TRUE)

\* C4: a request whose signature is absent or does not verify is answered
\* 401 and leaves the table and the file unchanged.
C4_BadSignatureIs401 ==
    [][(IsWebhook(last') /\ DoesNotVerify(last')) =>
          /\ Answered(last', 401)
          /\ UNCHANGED <<reactionData, file>>]_vars

\* C7: a request that carries the HMAC of its raw body is accepted, whatever
\* the formatting of the JSON in that body.
C7_RawBodySignatureAccepted ==
    (IsWebhook(last) /\ CorrectlySigned(last)) =>
        /\ last.outcome # "unhandledRejection"
        /\ ~Answered(last, 401)

\* ------------------------------------------------------------------------
\* Single refresh: properties
\* ------------------------------------------------------------------------
IsRefresh(l) == l.op = "updateReactions"

RecordWithId(data, id) == data[FindIndex(data, id)]

NoFetchInFlight(r) == \A s \in DOMAIN r : r[s].pc \notin {"fetch", "batchFetch"}

\* C11: a single refresh for an id the table does not hold is answered 404,
\* starts no fetch, and leaves the table and the file unchanged.
C11_UnknownIdNotFound ==
    [][(/\ IsRefresh(last')
        /\ last'.id # 0
        /\ last'.token # ""
        /\ last'.id \notin IdsOf(reactionData)) =>
          /\ Answered(last', 404)
          /\ NoFetchInFlight(req')
          /\ UNCHANGED <<reactionData, file, req>>]_vars

\* a refresh for an id not in a table that holds another record, answered 404
C11_Witness ==
    /\ IsRefresh(last)
    /\ Answered(last, 404)
    /\ last.id # 0
    /\ reactionData # <<>>
    /\ last.id \notin IdsOf(reactionData)

\* C13: when the fetch of a refresh fails (transport error or a status that
\* is not OK) the request is answered with the failure, no write of the file
\* is started, and the table (so the record's reactions, stats and
\* last_updated) and the file are what they were.
C13_FailedFetchKeepsRecord ==
    [][(last'.op = "fetched" /\ last'.response.kind # "ok") =>
          /\ Answered(last', 404)
          /\ ~last'.success
          /\ \A s \in DOMAIN req : req'[s].pc # "refreshSave"
          /\ UNCHANGED <<reactionData, file>>]_vars

\* a failed fetch for a record that had reactions and stats from an earlier
\* refresh
C13_Witness ==
    /\ last.op = "fetched"
    /\ last.response.kind = "status"
    /\ Answered(last, 404)
    /\ HasStats(RecordWithId(reactionData, last.id))
    /\ RecordWithId(reactionData, last.id).stats.total > 0
    /\ RecordWithId(reactionData, last.id).reactions # <<>>

\* C14: a fetch that returns no reaction is a success: the record's reactions
\* become empty, its stats all 0, last_updated the time of the refresh, the
\* file write is started and the request answered with success.
C14_EmptyFetchIsSuccess ==
    [][/\ (/\ last'.op = "fetched"
           /\ last'.response.kind = "ok"
           /\ last'.response.json = <<>>) =>
            LET e == RecordWithId(reactionData', last'.id)
            IN  /\ last'.outcome = "awaitSave"
                /\ last'.success
                /\ e.reactions = <<>>
                /\ HasStats(e)
                /\ e.stats = [total |-> 0, positive |-> 0, negative |-> 0,
                              satisfaction |-> 0]
                /\ e.last_updated = now
                /\ \E s \in DOMAIN req : req'[s].pc = "refreshSave"
       /\ (last'.op = "fetched" /\ last'.outcome = "awaitSave") =>
            last'.response.kind = "ok"
       /\ last'.op = "updateReactionsDone" => Answered(last', 200)]_vars

\* a record refreshed with no reaction, later than it was ingested, returned
\* with the success response
C14_Witness ==
    /\ last.op = "updateReactionsDone"
    /\ last.comment.reactions = <<>>
    /\ HasStats(last.comment)
    /\ last.comment.stats.total = 0
    /\ last.comment.last_updated > last.comment.timestamp

\* ------------------------------------------------------------------------
\* The verifier as a pure function: inputs drawn in Init, one call
\* ------------------------------------------------------------------------
Secrets == {WEBHOOK_SECRET, 2}

PayloadChars == {97, 98}                \* 'a', 'b'
SigPayloads == SeqsUpTo(PayloadChars, MaxPayloadLen)

\* A header value reaches the handler decoded as latin1: one code point
\* (0..255) per byte on the wire.
ReplBytes == {48, 102, 233}             \* '0', 'f', and a byte above 127

OneByteChanged(s) ==
    {[s EXCEPT ![i] = b] : i \in 1..Len(s), b \in ReplBytes} \ {s}

SignatureInputs ==
    {Undefined, <<>>}
    \cup UNION {
           LET good == Sign(p, k)
           IN  {good, SubSeq(good, 1, Len(good) - 1), Append(good, 48)}
                 \cup OneByteChanged(good)
         : p \in SigPayloads, k \in Secrets}

SigInit ==
    /\ ServerInit
    /\ sigArgs \in [payload : SigPayloads, signature : SignatureInputs,
                    secret : Secrets]
    /\ sigRet = Pending

SigVerify ==
    /\ sigRet.state = "pending"
    /\ sigRet' = verifyGitHubSignature(sigArgs.payload, sigArgs.signature,
                                       sigArgs.secret)
    /\ UNCHANGED <<sigArgs, serverVars>>

SigNext == SigVerify

SigSpec == SigInit /\ [][SigNext]_vars


\* a differs from b in exactly one place
OneChanged(a, b) ==
    /\ Len(a) = Len(b)
    /\ Cardinality({i \in 1..Len(a) : a[i] # b[i]}) = 1

\* C5: given the HMAC of the payload under the secret the verifier returns
\* true; with one byte of the payload or of the signature changed it returns
\* false.
C5_SignatureProperty ==
    sigRet.state # "pending" =>
        LET good == Sign(sigArgs.payload, sigArgs.secret)
        IN  /\ sigArgs.signature = good => sigRet = Returned(TRUE)
            /\ OneChanged(sigArgs.signature, good) => sigRet = Returned(FALSE)
            /\ (\E p \in SigPayloads :
                   /\ OneChanged(p, sigArgs.payload)
                   /\ sigArgs.signature = Sign(p, sigArgs.secret))
                 => sigRet = Returned(FALSE)

\* C6: the verifier returns a boolean for every input and never throws; an
\* absent signature and every signature other than the digest string, of
\* whatever length, give false.
C6_VerifierNeverThrows ==
    sigRet.state # "pending" =>
        /\ sigRet.state = "returned"
        /\ sigArgs.signature # Sign(sigArgs.payload, sigArgs.secret)
             => sigRet = Returned(FALSE)

\* ------------------------------------------------------------------------
\* Statistics: the table loaded with two records, refreshed with short and
\* long answers of the API
\* ------------------------------------------------------------------------
ReactionTypes == {"+1", "-1", "heart", "rocket", "hooray", "eyes",
                  "confused", "laugh"}

ReactionsOf(types) == [i \in 1..Len(types) |-> Reaction(types[i])]

\* a long answer: p positive reactions, then negative and neutral in turn
LongTypes(p, total) ==
    [i \in 1..total |->
        IF i <= p THEN (IF i % 2 = 1 THEN "+1" ELSE "heart")
        ELSE IF i % 3 = 0 THEN "confused"
        ELSE IF i % 3 = 1 THEN "-1" ELSE "eyes"]

\* one type of each class: positive, negative, neither
ClassTypes == {"+1", "-1", "eyes"}

ShortAnswers ==
    {ReactionsOf(t) : t \in SeqsUpTo(ClassTypes, MaxReactions)
                           \cup {<<type>> : type \in ReactionTypes}
                           \cup {<<"+1", "+1", "-1">>}}

LongAnswers == {ReactionsOf(LongTypes(p, LongTotal)) : p \in 0..LongTotal}

\* the answers of the API for a comment: comment 1 is the one with many
\* reactions
StatsApiResponses(id) ==
    {[kind |-> "status", json |-> <<>>]}
    \cup {[kind |-> "ok", json |-> j] :
            j \in IF id = 1 THEN ShortAnswers \cup LongAnswers
                  ELSE ShortAnswers}

StatsInit ==
    /\ listening = FALSE
    /\ reactionData = <<>>
    /\ file = FileOf(<<NewEntry(Comment(1, <<97>>, Tracked), 0),
                       NewEntry(Comment(2, <<98>>, Tracked), 0)>>)
    /\ req = [s \in Slots |-> Idle]
    /\ last = [op |-> "load"]
    /\ now = 0
    /\ sigArgs = [payload |-> <<>>, signature |-> Undefined,
                  secret |-> WEBHOOK_SECRET]
    /\ sigRet = Pending

StatsNext ==
    \/ startServer
    \/ \E s \in Slots, commentId \in Ids : UpdateReactions(s, commentId, "token")
    \/ \E s \in Slots :
         \E response \in StatsApiResponses(req[s].id) : FetchSettled(s, response)
    \/ \E s \in Slots : WriteSettled(s, TRUE)
    \/ GetStats

StatsSpec == StatsInit /\ [][StatsNext]_vars

Count(reactions, types) ==
    Cardinality({i \in 1..Len(reactions) : reactions[i].type \in types})

\* round(100 * part / whole), halves up, in integers
RoundHalfUp(part, whole) == (200 * part + whole) \div (2 * whole)

\* C8: for every record with stats, total = positive + negative + the number
\* of reactions that are neither, 0 <= satisfaction <= 100, and satisfaction
\* is 0 when total is 0.
C8_StatsInvariant ==
    \A i \in 1..Len(reactionData) :
        HasStats(reactionData[i]) =>
            LET e     == reactionData[i]
                other == Count(e.reactions,
                               {r.type : r \in {e.reactions[k] :
                                                  k \in 1..Len(e.reactions)}}
                                 \ {"+1", "heart", "rocket", "hooray",
                                    "-1", "confused"})
            IN  /\ e.stats.total = e.stats.positive + e.stats.negative + other
                /\ e.stats.satisfaction >= 0
                /\ e.stats.satisfaction <= 100
                /\ e.stats.total = 0 => e.stats.satisfaction = 0

\* one record refreshed with no reaction, the other with positive, negative
\* and neutral reactions
C8_Witness ==
    /\ Len(reactionData) = 2
    /\ HasStats(reactionData[1])
    /\ HasStats(reactionData[2])
    /\ reactionData[2].stats.total = 0
    /\ reactionData[1].stats.positive > 0
    /\ reactionData[1].stats.negative > 0
    /\ reactionData[1].stats.total >
          reactionData[1].stats.positive + reactionData[1].stats.negative

\* C9: after a successful refresh with fetched reactions R the record holds
\* R and stats: total = |R|, positive and negative the counts of the two
\* type lists, satisfaction = round(100 * positive / total), halves up, and
\* 0 for no reaction.
C9_RefreshStats ==
    (last.op = "fetched" /\ last.success) =>
        LET e        == reactionData[FindIndex(reactionData, last.id)]
            R        == last.reactions
            positive == Count(R, {"+1", "heart", "rocket", "hooray"})
            negative == Count(R, {"-1", "confused"})
        IN  /\ e.reactions = R
            /\ HasStats(e)
            /\ e.stats = [total        |-> Len(R),
                          positive     |-> positive,
                          negative     |-> negative,
                          satisfaction |->
                             IF Len(R) > 0 THEN RoundHalfUp(positive, Len(R))
                             ELSE 0]

RECURSIVE SumOver(_, _, _)
SumOver(data, indices, field) ==
    IF indices = {} THEN 0
    ELSE LET i == CHOOSE i \in indices : TRUE
         IN  (IF HasStats(data[i]) THEN data[i].stats[field] ELSE 0)
               + SumOver(data, indices \ {i}, field)

\* C10: the answer of GET /stats is the aggregate of the records: counts,
\* sums of the stats (absent stats count 0), overall satisfaction and
\* engagement rate rounded from the exact quotients, 0 for an empty
\* denominator.
C10_GlobalAggregate ==
    last.op = "stats" =>
        LET all      == 1..Len(reactionData)
            reacted  == {i \in all : /\ HasStats(reactionData[i])
                                     /\ reactionData[i].stats.total > 0}
            total    == SumOver(reactionData, all, "total")
            positive == SumOver(reactionData, all, "positive")
            negative == SumOver(reactionData, all, "negative")
        IN  last.response =
              [total_comments          |-> Len(reactionData),
               comments_with_reactions |-> Cardinality(reacted),
               total_reactions         |-> total,
               positive_reactions      |-> positive,
               negative_reactions      |-> negative,
               overall_satisfaction    |->
                  IF total > 0 THEN RoundHalfUp(positive, total) ELSE 0,
               engagement_rate         |->
                  IF Len(reactionData) > 0
                  THEN RoundHalfUp(Cardinality(reacted), Len(reactionData))
                  ELSE 0]

\* ------------------------------------------------------------------------
\* Refresh requests racing with webhooks: one refresh request (single or
\* batch) and one webhook in flight at a time, the table loaded with one
\* record
\* ------------------------------------------------------------------------
BatchSlots == {"refresh", "webhook"}

BatchTokens == {"token", "other", ""}

\* tracked 'comment created' notifications, correctly signed: a re-delivery
\* for the loaded record and a new comment
BatchWebhooks ==
    {Received(JSONstringify(d), Sign(JSONstringify(d), WEBHOOK_SECRET),
              "issue_comment")
       : d \in {[action |-> "created", repository |-> TRUE,
                 comment |-> Comment(id, <<97>>, Tracked)] : id \in Ids}}

BatchApiResponses ==
    {[kind |-> "status", json |-> <<>>],
     [kind |-> "ok", json |-> <<>>],
     [kind |-> "ok", json |-> <<Reaction("+1")>>]}

BatchInit ==
    /\ listening = FALSE
    /\ reactionData = <<>>
    /\ file = FileOf(<<NewEntry(Comment(1, <<97>>, Tracked), 0)>>)
    /\ req = [s \in BatchSlots |-> Idle]
    /\ last = [op |-> "load"]
    /\ now = 0
    /\ sigArgs = [payload |-> <<>>, signature |-> Undefined,
                  secret |-> WEBHOOK_SECRET]
    /\ sigRet = Pending

BatchNext ==
    \/ startServer
    \/ Tick
    \/ \E r \in BatchWebhooks : Webhook("webhook", r)
    \/ \E commentId \in Ids \cup {0}, token \in BatchTokens :
         UpdateReactions("refresh", commentId, token)
    \/ \E token \in BatchTokens : UpdateAll("refresh", token)
    \/ \E response \in BatchApiResponses : FetchSettled("refresh", response)
    \/ \E response \in BatchApiResponses :
         BatchFetchSettled("refresh", response)
    \/ \E s \in BatchSlots : WriteSettled(s, TRUE)
    \/ BatchWriteSettled("refresh", TRUE)
    \/ BatchDelayElapsed("refresh")

BatchSpec == BatchInit /\ [][BatchNext]_vars

\* C12: a single refresh without comment id or without credential, and a
\* batch refresh without credential, are answered 400, start no fetch, and
\* leave the table, the file and the handlers in flight as they were.
C12_MissingFieldsAre400 ==
    [][(\/ IsRefresh(last') /\ (last'.id = 0 \/ last'.token = "")
        \/ last'.op = "updateAll" /\ last'.token = "") =>
          /\ Answered(last', 400)
          /\ req'["refresh"].pc = "idle"
          /\ UNCHANGED <<reactionData, file, req>>]_vars

\* a batch refresh without credential answered 400 while the table holds
\* records
C12_Witness ==
    /\ last.op = "updateAll"
    /\ last.token = ""
    /\ Answered(last, 400)
    /\ Len(reactionData) = 2

\* C15: when a single refresh answers with success, the record stored under
\* the id holds the reactions its fetch returned and the stats computed from
\* them, and is the record of the response.
C15_SuccessReturnsRefreshedRecord ==
    last.op = "updateReactionsDone" =>
        LET e == RecordWithId(reactionData, last.id)
        IN  /\ last.comment = e
            /\ e.reactions = last.fetched
            /\ HasStats(e)
            /\ e.stats = ComputeStats(last.fetched)

IsBatchDone(l) ==
    /\ l.op \in {"updateAll", "batchNext"}
    /\ l.outcome = "response"
    /\ l.status = 200

\* C16: a batch works on the list of records taken when it starts: it
\* attempts the ids of that list and no other, and its summary counts that
\* list.
C16_BatchListTakenAtStart ==
    IsBatchDone(last) =>
        /\ last.attempted = last.startIds
        /\ last.total = Len(last.startIds)

IsBatch(slotState) == slotState.pc \in {"batchFetch", "batchSave", "batchDelay"}

Once(seq) == Cardinality({seq[i] : i \in 1..Len(seq)}) = Len(seq)

\* C17: a batch attempts every record of its list exactly once, in the order
\* of the list, whatever the outcome of the attempts before: while it runs,
\* the ids attempted are the ids of the table up to the position of the
\* loop; when it answers, the ids attempted begin with the whole list it
\* started with, and none was attempted twice.
C17_BatchAttemptsEachInOrder ==
    /\ \A s \in DOMAIN req :
         IsBatch(req[s]) =>
            /\ req[s].attempted =
                  SubSeq(IdSeq(reactionData), 1, req[s].index)
            /\ Once(req[s].attempted)
    /\ IsBatchDone(last) =>
          /\ Len(last.attempted) >= Len(last.startIds)
          /\ SubSeq(last.attempted, 1, Len(last.startIds)) = last.startIds
          /\ Once(last.attempted)

\* a batch over two records answered after the fetch for the first failed
\* and the fetch for the second succeeded
C17_Witness ==
    /\ IsBatchDone(last)
    /\ last.startIds = <<1, 2>>
    /\ last.attempted = <<1, 2>>
    /\ last.succeeded = <<2>>

\* C18: the summary of a batch: successes is the number of attempts of this
\* batch whose fetch returned reactions, total the number of records it
\* attempted, and successes <= total.
C18_BatchSummaryCounts ==
    IsBatchDone(last) =>
        /\ last.updated = Len(last.succeeded)
        /\ last.total = Len(last.attempted)
        /\ last.updated <= last.total

\* a summary of one success out of two attempts
C18_Witness ==
    /\ IsBatchDone(last)
    /\ last.updated = 1
    /\ last.total = 2
    /\ Len(last.succeeded) = 1

BatchOps == {"updateAll", "batchFetched", "batchSaved", "batchNext"}

RefreshedFields == {"reactions", "stats", "last_updated"}

\* C19: no step of a batch adds or removes a record, and the only fields a
\* step of a batch changes on a record are reactions, stats and last_updated.
C19_BatchKeepsRecordSet ==
    [][last'.op \in BatchOps =>
          /\ IdSeq(reactionData') = IdSeq(reactionData)
          /\ \A i \in 1..Len(reactionData) :
               /\ DOMAIN reactionData'[i] \subseteq
                     DOMAIN reactionData[i] \cup {"stats"}
               /\ \A f \in DOMAIN reactionData[i] \ RefreshedFields :
                     reactionData'[i][f] = reactionData[i][f]]_vars

\* a step of a batch has refreshed a record, later than it was ingested
C19_Witness ==
    /\ last.op = "batchFetched"
    /\ last.success
    /\ HasStats(RecordWithId(reactionData, last.id))
    /\ RecordWithId(reactionData, last.id).last_updated >
          RecordWithId(reactionData, last.id).timestamp

Credentials == BatchTokens \ {""}

EntryFields == {"id", "timestamp", "repository", "issue_number",
                "comment_url", "author", "created_at", "body_preview",
                "reactions", "last_updated", "stats"}

\* no field of the entries of data is, or holds, a credential
NoCredentialIn(data) ==
    \A i \in 1..Len(data) :
        /\ DOMAIN data[i] \subseteq EntryFields
        /\ data[i].repository \notin Credentials
        /\ \A k \in 1..Len(data[i].reactions) :
             /\ DOMAIN data[i].reactions[k] = {"type", "user", "created_at"}
             /\ data[i].reactions[k].type \notin Credentials
             /\ data[i].reactions[k].user \notin Credentials
        /\ HasStats(data[i]) =>
             DOMAIN data[i].stats =
                {"total", "positive", "negative", "satisfaction"}

\* C20: the credential of a refresh request is held by the handler only: no
\* record of the table and no content of the file holds it, and the table
\* after a fetch settles is determined by the table before, the entry the
\* handler holds, the outcome of the fetch and the clock.
C20_CredentialRequestScoped ==
    /\ [](/\ NoCredentialIn(reactionData)
          /\ NoCredentialIn(file.value)
          /\ \A s \in DOMAIN req :
               /\ NoCredentialIn(req[s].snap.value)
               /\ req[s].pc = "idle" => req[s].token = "")
    /\ [][last'.op \in {"fetched", "batchFetched"} =>
            \E s \in DOMAIN req :
                /\ req[s].pc \in {"fetch", "batchFetch"}
                /\ req[s].token \in Credentials
                /\ reactionData' =
                      IF last'.success /\ ~req[s].stale
                      THEN [reactionData EXCEPT ![req[s].entry] =
                              [f \in DOMAIN @ \cup {"stats"} |->
                                 IF f = "stats"
                                 THEN ComputeStats(last'.reactions)
                                 ELSE IF f = "reactions" THEN last'.reactions
                                 ELSE IF f = "last_updated" THEN now
                                 ELSE @[f]]]
                      ELSE reactionData]_vars

\* a refresh made with a credential has been written to the file
C20_Witness ==
    /\ last.op = "updateReactionsDone"
    /\ file.kind = "json"
    /\ \E i \in 1..Len(file.value) :
         /\ HasStats(file.value[i])
         /\ file.value[i].reactions # <<>>
    /\ file.value = reactionData


\* ------------------------------------------------------------------------
\* Startup: the process starts over each content the data file can have,
\* then serves GET /data
\* ------------------------------------------------------------------------
MaxLoaded == 2

\* records as saveData writes them: never refreshed, refreshed with no
\* reaction, refreshed with reactions
LoadRecords ==
    UNION {{NewEntry(Comment(id, <<97>>, Tracked), 0),
            UpdateEntry(NewEntry(Comment(id, <<97>>, Tracked), 0), <<>>, 1),
            UpdateEntry(NewEntry(Comment(id, <<97>>, Tracked), 0),
                        MapReactions(<<Reaction("+1"), Reaction("-1"),
                                       Reaction("heart")>>), 1)}
           : id \in Ids}

\* no file; a file that cannot be read; text that is no JSON document (a
\* truncated write); the documents null and {}; serialized tables
LoadFiles ==
    {[kind |-> k, value |-> <<>>]
       : k \in {"missing", "unreadable", "garbage", "null", "object"}}
    \cup {FileOf(data) : data \in SeqsUpTo(LoadRecords, MaxLoaded)}

LoadInit ==
    /\ listening = FALSE
    /\ reactionData = <<>>
    /\ file \in LoadFiles
    /\ req = [s \in Slots |-> Idle]
    /\ last = [op |-> "load"]
    /\ now = 0
    /\ sigArgs = [payload |-> <<>>, signature |-> Undefined,
                  secret |-> WEBHOOK_SECRET]
    /\ sigRet = Pending

LoadNext ==
    \/ startServer
    \/ GetData
    \/ GetStats
    \/ GetHealth

LoadSpec == LoadInit /\ [][LoadNext]_vars

\* C21: once the server listens, the table is the sequence of records the
\* file serializes when the file holds one, and the empty table for every
\* other file (missing, unreadable, or holding anything else).
C21_LoadNeverFails ==
    listening =>
        reactionData = (IF file.kind = "json" THEN file.value ELSE <<>>)

\* C23: GET /data lists one entry per record, each with a stats object of
\* the four counters; a record without stats is listed with all four at 0,
\* a record with stats with its own; total_comments is the number of
\* entries listed.
C23_ListCarriesStats ==
    (last.op = "data" /\ last.status = 200) =>
        LET comments == last.response.comments
        IN  /\ last.response.total_comments = Len(comments)
            /\ Len(comments) = Len(reactionData)
            /\ \A i \in 1..Len(comments) :
                 /\ "stats" \in DOMAIN comments[i]
                 /\ DOMAIN comments[i].stats =
                      {"total", "positive", "negative", "satisfaction"}
                 /\ comments[i].id = reactionData[i].id
                 /\ IF "stats" \in DOMAIN reactionData[i]
                    THEN comments[i].stats = reactionData[i].stats
                    ELSE \A f \in DOMAIN comments[i].stats :
                           comments[i].stats[f] = 0

\* the list of a table that holds a never-refreshed record and a refreshed
\* one
C23_Witness ==
    /\ last.op = "data"
    /\ last.status = 200
    /\ Len(reactionData) = 2
    /\ ~HasStats(reactionData[1])
    /\ HasStats(reactionData[2])
    /\ reactionData[2].stats.total = 3
    /\ last.response.comments[1].stats.total = 0
    /\ last.response.total_comments = 2

\* ------------------------------------------------------------------------
\* The table under webhooks and refreshes in flight together
\* ------------------------------------------------------------------------
\* C22: no step removes a record: every id of the table is still in the
\* table after the step, and the table has at least as many records.
C22_RecordsNeverDeleted ==
    [][/\ IdsOf(reactionData) \subseteq IdsOf(reactionData')
       /\ Len(reactionData') >= Len(reactionData)]_vars

\* a table of two records that a re-delivery and a batch refresh have
\* written
C22_Witness ==
    /\ last.op = "batchSaved"
    /\ IdsOf(reactionData) = {1, 2}
    /\ req["webhook"].pc = "webhookSave"
    /\ req["webhook"].id = 1

\* ------------------------------------------------------------------------
\* Webhook requests under the event loop: a write that fs.writeFile has
\* started settles, and the handler that awaits it is resumed
\* ------------------------------------------------------------------------
LiveSpec ==
    /\ Init
    /\ [][Next]_vars
    /\ WF_vars(\E s \in Slots, ok \in WriteOutcomes : WriteSettled(s, ok))

\* C24: every webhook request is answered: the handler responds before its
\* first await, or it awaits the save and its response follows.
C24_WebhookAlwaysAnswered ==
    [](IsWebhook(last) =>
         \/ last.outcome = "response"
         \/ last.outcome = "awaitSave" /\ <>(last.op = "webhookDone"))

\* C25: while a refresh is between its lookup of a record and its write of
\* the refreshed fields (its fetch is pending), no step of another handler
\* writes the record it looked up.
C25_RefreshIsAtomic ==
    [][\A s \in DOMAIN req :
         (/\ req[s].pc \in {"fetch", "batchFetch"}
          /\ req'[s].pc = req[s].pc) =>
            reactionData'[req[s].entry] = reactionData[req[s].entry]]_vars

\* ------------------------------------------------------------------------
\* Two single refreshes in flight together: 'later' is only issued while the
\* fetch of 'earlier' is pending, so whenever both are in flight the fetch
\* of 'earlier' was issued first.  The table is loaded with two records.
\* ------------------------------------------------------------------------
RaceSlots == {"earlier", "later"}

RaceInit ==
    /\ listening = FALSE
    /\ reactionData = <<>>
    /\ file = FileOf(<<NewEntry(Comment(1, <<97>>, Tracked), 0),
                       NewEntry(Comment(2, <<98>>, Tracked), 0)>>)
    /\ req = [s \in RaceSlots |-> Idle]
    /\ last = [op |-> "load"]
    /\ now = 0
    /\ sigArgs = [payload |-> <<>>, signature |-> Undefined,
                  secret |-> WEBHOOK_SECRET]
    /\ sigRet = Pending

RaceNext ==
    \/ startServer
    \/ Tick
    \/ \E commentId \in Ids :
         /\ req["later"].pc = "idle"
         /\ UpdateReactions("earlier", commentId, "token")
    \/ \E commentId \in Ids :
         /\ req["earlier"].pc = "fetch"
         /\ UpdateReactions("later", commentId, "token")
    \/ \E s \in RaceSlots, response \in BatchApiResponses :
         FetchSettled(s, response)
    \/ \E s \in RaceSlots : WriteSettled(s, TRUE)

RaceSpec == RaceInit /\ [][RaceNext]_vars

\* C26: when the fetch issued earlier for a comment settles after the fetch
\* issued later for the same comment has written its result, the record
\* keeps the reactions of the later fetch.
C26_LaterFetchWins ==
    [][(/\ req["earlier"].pc = "fetch"
        /\ req["later"].pc = "refreshSave"
        /\ req["earlier"].id = req["later"].id
        /\ last'.op = "fetched"
        /\ req'["earlier"].pc # "fetch") =>
          reactionData'[req["later"].entry].reactions
              = req["later"].reactions]_vars

\* ------------------------------------------------------------------------
\* Saves: webhooks, refreshes and a termination signal in flight together,
\* writes that succeed or fail, the process started again after its exit
\* ------------------------------------------------------------------------
SaveSlots == {"refresh", "webhook", "signal"}

SavePcs == {"webhookSave", "refreshSave", "batchSave", "exitSave"}

SaveInit ==
    /\ listening = FALSE
    /\ reactionData = <<>>
    /\ file = FileOf(<<NewEntry(Comment(1, <<97>>, Tracked), 0)>>)
    /\ req = [s \in SaveSlots |-> Idle]
    /\ last = [op |-> "load"]
    /\ now = 0
    /\ sigArgs = [payload |-> <<>>, signature |-> Undefined,
                  secret |-> WEBHOOK_SECRET]
    /\ sigRet = Pending

SaveNext ==
    \/ startServer
    \/ \E r \in BatchWebhooks : Webhook("webhook", r)
    \/ \E commentId \in Ids : UpdateReactions("refresh", commentId, "token")
    \/ UpdateAll("refresh", "token")
    \/ \E response \in BatchApiResponses : FetchSettled("refresh", response)
    \/ \E response \in BatchApiResponses :
         BatchFetchSettled("refresh", response)
    \/ \E s \in SaveSlots, ok \in BOOLEAN : WriteSettled(s, ok)
    \/ \E ok \in BOOLEAN : BatchWriteSettled("refresh", ok)
    \/ BatchDelayElapsed("refresh")
    \/ Signal("signal")
    \/ \E ok \in BOOLEAN : Exit("signal", ok)

SaveSpec == SaveInit /\ [][SaveNext]_vars

\* C27: at most one handler has a write of the data file in progress.
C27_OneWriterAtATime ==
    Cardinality({s \in DOMAIN req : req[s].pc \in SavePcs}) <= 1

\* C28: a step that writes the table (an ingest, a refresh whose fetch
\* returned reactions) starts a save of the whole table as it is then and
\* does not respond; a handler that awaits a save responds, or goes on to
\* the next record, in the step in which its write attempt completes; the
\* process exits in the step in which the write attempt of the signal
\* handler completes.
Mutated(l) ==
    \/ IsWebhook(l) /\ l.outcome = "awaitSave"
    \/ l.op \in {"fetched", "batchFetched"} /\ l.outcome = "awaitSave"

Completed(l) ==
    l.op \in {"webhookDone", "updateReactionsDone", "batchSaved", "exit"}

C28_SaveBeforeResponse ==
    [][/\ (reactionData' # reactionData /\ listening /\ listening') =>
            Mutated(last')
       /\ Mutated(last') =>
            \E s \in DOMAIN req :
              /\ req[s].pc \notin SavePcs
              /\ req'[s].pc \in SavePcs
              /\ req'[s].snap = FileOf(reactionData')
       /\ last'.op = "signal" =>
            /\ req'["signal"].pc = "exitSave"
            /\ req'["signal"].snap = FileOf(reactionData)
            /\ listening'
       /\ \A s \in DOMAIN req :
            (req[s].pc \in SavePcs /\ req'[s].pc \notin SavePcs) =>
              /\ Completed(last')
              /\ \E t \in DOMAIN req :
                   /\ req[t].pc \in SavePcs
                   /\ file' = (IF last'.saved THEN req[t].snap ELSE file)
       /\ Completed(last') =>
            \E s \in DOMAIN req :
              /\ req[s].pc \in SavePcs
              /\ req'[s].pc \notin SavePcs
              /\ file' = (IF last'.saved THEN req[s].snap ELSE file)
       /\ (listening /\ ~listening') =>
            /\ last'.op = "exit"
            /\ req["signal"].pc = "exitSave"]_vars

\* the process has exited after its signal handler wrote a table of two
\* records, one of them refreshed
C28_Witness ==
    /\ last.op = "exit"
    /\ last.saved
    /\ ~listening
    /\ file.kind = "json"
    /\ Len(file.value) = 2
    /\ \E i \in 1..2 : HasStats(file.value[i])

\* C30: a write attempt that fails leaves the table as it is and the handler
\* completes as after a write that succeeds (the webhook and the single
\* refresh answered 200, the batch attempt counted, the process exited with
\* code 0); a write attempt that succeeds leaves in the file the table as it
\* was when that save was called.
C30_WriteFailureAbsorbed ==
    [][Completed(last') =>
         /\ last'.op # "exit" => reactionData' = reactionData
         /\ last'.op \in {"webhookDone", "updateReactionsDone"} =>
              Answered(last', 200)
         /\ last'.op = "batchSaved" =>
              req'["refresh"].updated = req["refresh"].updated + 1
         /\ last'.op = "exit" => last'.code = 0
         /\ last'.saved =>
              \E s \in DOMAIN req :
                /\ req[s].pc \in SavePcs
                /\ req'[s].pc \notin SavePcs
                /\ file' = req[s].snap]_vars

\* the handler of a webhook has answered 200 after its write failed: the
\* table holds the ingested record, the file does not
C30_Witness ==
    /\ last.op = "webhookDone"
    /\ ~last.saved
    /\ Answered(last, 200)
    /\ file # FileOf(reactionData)
    /\ Len(reactionData) = 2

\* C29: when no handler is in flight (every operation and every save has
\* completed) and no write has failed, the file holds the serialization of
\* the table.
C29_QuiescentFileIsTable ==
    (listening /\ \A s \in DOMAIN req : req[s].pc = "idle") =>
        file = FileOf(reactionData)

\* ------------------------------------------------------------------------
\* Refreshes under the event loop: writes settle and the batch delay
\* elapses; the code sets no limit on the wait of fetch, so the answer of the
\* external API is not assumed to come
\* ------------------------------------------------------------------------
RefreshLiveSpec ==
    /\ BatchInit
    /\ [][BatchNext]_vars
    /\ WF_vars(\E s \in BatchSlots : WriteSettled(s, TRUE))
    /\ WF_vars(BatchWriteSettled("refresh", TRUE))
    /\ WF_vars(BatchDelayElapsed("refresh"))

\* C31: a refresh that has issued a call of the external API gets past that
\* call and its request is answered, whether or not the API answers.
C31_RefreshAlwaysResponds ==
    []((/\ last.op \in {"updateReactions", "updateAll", "batchNext"}
        /\ last.outcome = "awaitFetch") =>
          <>(req["refresh"].pc = "idle"))

\* ------------------------------------------------------------------------
\* The calls of the external API
\* ------------------------------------------------------------------------
FetchPcs == {"fetch", "batchFetch"}

\* C32: when the call of a refresh attempt settles, with reactions or with a
\* failure, the attempt issues no further call; a call is only issued by the
\* step of a request that starts an attempt (a single refresh, a turn of the
\* batch iterator), one call for one record.
C32_NoRetry ==
    [][/\ last'.op \in {"fetched", "batchFetched"} =>
            /\ req["refresh"].pc \in FetchPcs
            /\ req'["refresh"].pc \notin FetchPcs
       /\ (req["refresh"].pc \notin FetchPcs
             /\ req'["refresh"].pc \in FetchPcs) =>
            /\ last'.op \in {"updateReactions", "updateAll", "batchNext"}
            /\ last'.outcome = "awaitFetch"
            /\ req'["refresh"].id = last'.id
            /\ req'["refresh"].pc = "batchFetch" =>
                 /\ req'["refresh"].index = req["refresh"].index + 1
                 /\ req'["refresh"].attempted =
                      Append(req["refresh"].attempted, last'.id)]_vars

\* the call of a single refresh has failed and the request is answered
C32_Witness ==
    /\ last.op = "fetched"
    /\ last.response.kind = "status"
    /\ Answered(last, 404)
    /\ req["refresh"].pc = "idle"

\* C33: a batch issues the call for a record either as its first step or
\* when the delay that follows the previous attempt has elapsed, and that
\* delay starts only when the call of the previous attempt has settled (and,
\* after a success, the save): the batch has at most one call in flight.
C33_BatchSequentialAndThrottled ==
    [][/\ (last'.op \in {"updateAll", "batchNext"}
             /\ last'.outcome = "awaitFetch") =>
            /\ req'["refresh"].pc = "batchFetch"
            /\ \/ last'.op = "updateAll" /\ req["refresh"].pc = "idle"
               \/ last'.op = "batchNext" /\ req["refresh"].pc = "batchDelay"
       /\ (req'["refresh"].pc = "batchDelay"
             /\ req["refresh"].pc # "batchDelay") =>
            \/ /\ req["refresh"].pc = "batchFetch"
               /\ last'.op = "batchFetched"
               /\ last'.response.kind # "ok"
            \/ /\ req["refresh"].pc = "batchSave"
               /\ last'.op = "batchSaved"
       /\ (req["refresh"].pc = "batchFetch"
             /\ req'["refresh"].pc # "batchFetch") =>
            last'.op = "batchFetched"]_vars

\* the call for the second record of a batch has been issued
C33_Witness ==
    /\ last.op = "batchNext"
    /\ last.outcome = "awaitFetch"
    /\ req["refresh"].pc = "batchFetch"
    /\ req["refresh"].index = 2
    /\ Len(req["refresh"].attempted) = 2

\* ------------------------------------------------------------------------
\* Invariants of the table
\* ------------------------------------------------------------------------
\* C34: every record of the table either has no stats and no reactions, or
\* has the stats computed from the reactions it holds.
C34_StatsAgreeWithReactions ==
    \A i \in 1..Len(reactionData) :
        IF HasStats(reactionData[i])
        THEN reactionData[i].stats = ComputeStats(reactionData[i].reactions)
        ELSE reactionData[i].reactions = <<>>

\* a refreshed record with a reaction beside a record ingested while the
\* refresh was in flight
C34_Witness ==
    /\ Len(reactionData) = 2
    /\ HasStats(reactionData[1])
    /\ reactionData[1].stats.total = 1
    /\ reactionData[1].reactions # <<>>
    /\ ~HasStats(reactionData[2])
    /\ req["webhook"].pc = "webhookSave"
    /\ req["refresh"].pc = "refreshSave"

\* C35: no two records of the table have the same id.
C35_IdsUnique ==
    \A i, j \in 1..Len(reactionData) :
        reactionData[i].id = reactionData[j].id => i = j

\* a comment already in a table of two records has been delivered again
\* while a refresh of it is in flight
C35_Witness ==
    /\ Ingested(last)
    /\ last.existingIndex > 0
    /\ Len(reactionData) = 2
    /\ req["refresh"].pc \in FetchPcs
    /\ req["refresh"].id = Sent(last).comment.id

\* ------------------------------------------------------------------------
\* The read operations
\* ------------------------------------------------------------------------
ReadOps == {"data", "stats", "health"}

\* C36: a step of GET /data, GET /stats or GET /health leaves the table,
\* the file and the handlers in flight as they are; the count GET /data
\* reports (total_comments) and the count GET /health reports (data_entries)
\* are the number of records of the table.
C36_ReadsArePure ==
    [][last'.op \in ReadOps =>
         /\ UNCHANGED <<listening, reactionData, file, req>>
         /\ (last'.op = "data" /\ last'.status = 200) =>
              last'.response.total_comments = Len(reactionData)
         /\ (last'.op = "health"
               /\ "data_entries" \in DOMAIN last'.response) =>
              last'.response.data_entries = Len(reactionData)]_vars

\* the list of a table of two records, one refreshed, has been served
C36_Witness ==
    /\ last.op = "data"
    /\ last.status = 200
    /\ last.response.total_comments = 2
    /\ Len(reactionData) = 2
    /\ HasStats(reactionData[1])
    /\ ~HasStats(reactionData[2])

\* ------------------------------------------------------------------------
\* The frame of a refresh
\* ------------------------------------------------------------------------
KeptFields == {"id", "repository", "issue_number", "comment_url", "author",
               "created_at", "timestamp", "body_preview"}

\* C37: the step in which the call of a refresh of comment X settles, with
\* reactions or with a failure, leaves every record with another id as it
\* is, keeps the number and order of the records, and on a record with id X
\* keeps id, repository, issue_number, comment_url, author, created_at,
\* timestamp and body_preview; the other steps of a refresh leave the table
\* as it is.
C37_RefreshFrame ==
    [][/\ last'.op \in {"fetched", "batchFetched"} =>
            /\ Len(reactionData') = Len(reactionData)
            /\ \A i \in 1..Len(reactionData) :
                 IF reactionData[i].id # last'.id
                 THEN reactionData'[i] = reactionData[i]
                 ELSE /\ KeptFields \subseteq DOMAIN reactionData'[i]
                      /\ \A f \in KeptFields :
                           reactionData'[i][f] = reactionData[i][f]
                      /\ DOMAIN reactionData'[i] \ KeptFields
                           \subseteq {"reactions", "stats", "last_updated"}
            /\ last'.response.kind # "ok" => UNCHANGED reactionData
       /\ last'.op \in {"updateReactions", "updateReactionsDone",
                        "updateAll", "batchNext", "batchSaved"} =>
            UNCHANGED reactionData]_vars

\* a refresh at time 1 has written a reaction to record 1, ingested at time
\* 0, in a table of two records
C37_Witness ==
    /\ last.op = "fetched"
    /\ last.response.kind = "ok"
    /\ last.response.json # <<>>
    /\ last.id = 1
    /\ Len(reactionData) = 2
    /\ reactionData[1].id = 1
    /\ reactionData[1].stats.total = 1
    /\ reactionData[1].last_updated = 1
    /\ reactionData[1].timestamp = 0

\* ------------------------------------------------------------------------
\* The classifier applied to comment bodies: no body, the empty body, and
\* every text of the code points of the markers and one other
\* ------------------------------------------------------------------------
MaxBodyLen == 3

BodyChars == {68, 76, 100, 45, 72, 82, 120}

ClassifierBodies == {Undefined} \cup SeqsUpTo(BodyChars, MaxBodyLen)

ClassifierInit ==
    /\ listening = FALSE
    /\ reactionData = <<>>
    /\ file = FileMissing
    /\ req = [s \in Slots |-> Idle]
    /\ last \in [op : {"classify"}, body : ClassifierBodies]
    /\ now = 0
    /\ sigArgs = [payload |-> <<>>, signature |-> Undefined,
                  secret |-> WEBHOOK_SECRET]
    /\ sigRet = Pending

Classify ==
    /\ last.op = "classify"
    /\ last' = [op |-> "classified", body |-> last.body,
                result |-> isDuplicateDetectorComment(last.body)]
    /\ UNCHANGED <<listening, reactionData, file, req, now, sigArgs, sigRet>>

ClassifierNext == Classify

ClassifierSpec == ClassifierInit /\ [][ClassifierNext]_vars

Markers == {HeadingMarker, TagMarker, FeedbackMarker}

\* C38: the classifier returns true exactly for a body that is present and
\* contains at least one of the three markers; in particular false for no
\* body and for the empty body.
C38_ClassifierExact ==
    last.op = "classified" =>
        /\ last.result =
             (/\ last.body # Undefined
              /\ \E m \in Markers : Includes(last.body, m))
        /\ last.body \in {Undefined, <<>>} => ~last.result

\* a body whose only marker is the feedback phrase is classified as tracked
C38_Witness ==
    /\ last.op = "classified"
    /\ last.body = <<120>> \o FeedbackMarker
    /\ last.result

\* ------------------------------------------------------------------------
\* The comment poster of the action (scripts/action/post-comment.js, and its
\* variant without footer), run once over a report file
\* ------------------------------------------------------------------------
MaxReportLen == 3

\* String.prototype.trim: white space removed from both ends
WhiteSpace == {9, 10, 32}

Trim(s) ==
    LET kept == {i \in 1..Len(s) : s[i] \notin WhiteSpace}
    IN  IF kept = {} THEN <<>>
        ELSE SubSeq(s, CHOOSE i \in kept : \A j \in kept : i <= j,
                       CHOOSE i \in kept : \A j \in kept : i >= j)

\* The footer, in the code points of the markers: two line feeds, '---',
\* two line feeds, '*', the bulb, ' **', 'Help us improve!', '**',
\* ' React with', the rest of the sentence (120), '*', a line feed, '<!-- ',
\* 'duplicate-logic-detector-comment', '-', Date.now(), ' -->'
FeedbackFooter(t) ==
    <<10, 10, 45, 45, 45, 10, 10, 42, 128161, 32, 42, 42, 72, 42, 42, 82,
      120, 42, 10, 60, 100, 45, t, 62>>

postCommentRethrows(variant, report, create, t) ==
    IF ~report.exists
    THEN [warnings |-> 1, calls |-> <<>>, errors |-> 0, settled |-> "resolved"]
    ELSE IF Trim(report.text) = <<>>
    THEN [warnings |-> 1, calls |-> <<>>, errors |-> 0, settled |-> "resolved"]
    ELSE LET body == IF variant = "footer"
                     THEN report.text \o FeedbackFooter(t)
                     ELSE report.text
         IN  [warnings |-> 0, calls |-> <<body>>,
              errors   |-> IF create = "rejects" THEN 1 ELSE 0,
              settled  |-> IF create = "rejects" THEN "rejected"
                           ELSE "resolved"]

\* the exported function: what it logs (core.warning, core.error), the
\* bodies it hands to issues.createComment, and how its promise settles
postComment(variant, report, create, t) ==
    IF ~report.exists
    THEN [warnings |-> 1, calls |-> <<>>, errors |-> 0, settled |-> "resolved"]
    ELSE IF Trim(report.text) = <<>>
    THEN [warnings |-> 1, calls |-> <<>>, errors |-> 0, settled |-> "resolved"]
    ELSE LET body == IF variant = "footer"
                     THEN report.text \o FeedbackFooter(t)
                     ELSE report.text
         IN  [warnings |-> 0, calls |-> <<body>>,
              errors   |-> IF create = "rejects" THEN 1 ELSE 0,
              settled  |-> "resolved"]

ReportChars == {10, 32, 120, 72}

ReportFiles ==
    {[exists |-> FALSE, text |-> <<>>]}
    \cup {[exists |-> TRUE, text |-> text]
            : text \in SeqsUpTo(ReportChars, MaxReportLen)}

PosterInit ==
    /\ listening = FALSE
    /\ reactionData = <<>>
    /\ file = FileMissing
    /\ req = [s \in Slots |-> Idle]
    /\ last \in [op : {"invoke"}, variant : {"footer", "plain"},
                 report : ReportFiles, create : {"resolves", "rejects"},
                 t : {0, 1}]
    /\ now = 0
    /\ sigArgs = [payload |-> <<>>, signature |-> Undefined,
                  secret |-> WEBHOOK_SECRET]
    /\ sigRet = Pending

Invoke ==
    /\ last.op = "invoke"
    /\ last' = [last EXCEPT !.op = "invoked"] @@
                 postComment(last.variant, last.report, last.create, last.t)
    /\ UNCHANGED <<listening, reactionData, file, req, now, sigArgs, sigRet>>

PosterNext == Invoke

PosterSpec == PosterInit /\ [][PosterNext]_vars

FooterMarkers == {TagMarker, FeedbackMarker}

\* C39: each of the two footer markers of the classifier is a substring of
\* the footer the poster appends, and every body the poster hands to
\* createComment with that footer is classified as tracked.
C39_FooterCarriesMarkers ==
    (last.op = "invoked" /\ last.variant = "footer" /\ last.calls # <<>>) =>
        /\ \A m \in FooterMarkers : Includes(FeedbackFooter(last.t), m)
        /\ isDuplicateDetectorComment(last.calls[1])

\* the part of C39 about the posted comment alone: it is classified as
\* tracked
PostedIsTracked ==
    (last.op = "invoked" /\ last.variant = "footer" /\ last.calls # <<>>) =>
        isDuplicateDetectorComment(last.calls[1])

\* C40: an invocation hands at most one body to createComment, none when
\* the report file is missing or holds only white space, and its promise
\* resolves, also when createComment rejects: the error is then logged.
C40_PosterNeverThrows ==
    last.op = "invoked" =>
        /\ Len(last.calls) <= 1
        /\ (\/ ~last.report.exists
            \/ \A i \in 1..Len(last.report.text) :
                 last.report.text[i] \in WhiteSpace) => last.calls = <<>>
        /\ last.settled = "resolved"
        /\ (last.calls # <<>> /\ last.create = "rejects") => last.errors = 1

\* createComment has rejected for a report with text between white space:
\* one call, the error logged, the promise resolved
C40_Witness ==
    /\ last.op = "invoked"
    /\ last.report.text = <<32, 120, 10>>
    /\ last.create = "rejects"
    /\ Len(last.calls) = 1
    /\ last.errors = 1
    /\ last.settled = "resolved"

====
